---- MODULE Spec2Model ----
\* fetch_data.py: config-driven batch fetch of hourly and daily bars, one CSV
\* file per (symbol, granularity), and a last-updated marker on full success.
EXTENDS Integers, Sequences, FiniteSets, TLC

VARIABLES config_file, config, symbols, ticker_map, pc, idx, disk, exit_status,
          log, responses, now, run, prev, disk0, after_first

vars == <<config_file, config, symbols, ticker_map, pc, idx, disk, exit_status,
          log, responses, now, run, prev, disk0, after_first>>

\* ---------------------------------------------------------------- bounds
\* longest configured symbol list
MaxSyms == 2
\* longest bar series the provider returns
MaxBars == 2

\* ---------------------------------------------------------------- strings
\* Symbols and tickers are sequences of one-character strings, so that
\* str.lower() and the f-string path construction are computed, not assumed.
RECURSIVE Join(_)
Join(s) == IF s = <<>> THEN "" ELSE Head(s) \o Join(Tail(s))

LowerChar(c) ==
    CASE c = "S" -> "s" [] c = "P" -> "p" [] c = "Y" -> "y"
      [] c = "B" -> "b" [] c = "T" -> "t" [] c = "C" -> "c"
      [] c = "H" -> "h" [] c = "G" -> "g" [] c = "U" -> "u" [] c = "D" -> "d"
      [] OTHER -> c

\* symbol.lower()
Lower(symbol) == [k \in 1..Len(symbol) |-> LowerChar(symbol[k])]

Digit(d) == <<"0", "1", "2", "3", "4", "5", "6", "7", "8", "9">>[d + 1]

RECURSIVE Str(_)
Str(n) == IF n < 10 THEN Digit(n) ELSE Str(n \div 10) \o Digit(n % 10)

RECURSIVE Pad(_, _)
Pad(n, width) == IF width = 0 THEN "" ELSE Pad(n \div 10, width - 1) \o Digit(n % 10)

RECURSIVE JoinWith(_, _)
JoinWith(fields, sep) ==
    IF fields = <<>> THEN ""
    ELSE IF Len(fields) = 1 THEN fields[1]
    ELSE fields[1] \o sep \o JoinWith(Tail(fields), sep)

\* ---------------------------------------------------------------- universe
SPY == <<"S", "P", "Y">>
SpyLower == <<"s", "p", "y">>
SpyHourly == <<"S", "P", "Y", "_", "h", "o", "u", "r", "l", "y">>
BTC == <<"B", "T", "C">>
BtcUsd == <<"B", "T", "C", "-", "U", "S", "D">>
Gspc == <<"^", "G", "S", "P", "C">>

SymbolUniverse == {SPY, SpyLower, SpyHourly, BTC}

Entry(symbol, has_ticker, ticker) ==
    [symbol |-> symbol, has_ticker |-> has_ticker, ticker |-> ticker]

\* the symbol entries a config.json of the run may list
RunEntries ==
    {Entry(SPY, FALSE, <<>>), Entry(SpyLower, FALSE, <<>>),
     Entry(SpyHourly, FALSE, <<>>), Entry(BTC, TRUE, BtcUsd)}

\* the symbol entries the resolver is exercised on: every override shape
ResolveEntries ==
    {Entry(s, FALSE, <<>>) : s \in {SPY, BTC}}
    \cup {Entry(s, TRUE, t) : s \in {SPY, BTC}, t \in {SPY, BTC, BtcUsd, Gspc}}

SeqsUpTo(S, n) == UNION {[1..k -> S] : k \in 0..n}

\* ---------------------------------------------------------------- pandas
Num(n) == [kind |-> "num", v |-> Str(n)]
Txt(s) == [kind |-> "str", v |-> s]
Stamp(t) == [kind |-> "ts", v |-> Pad(t.year, 4) \o "-" \o Pad(t.month, 2) \o "-"
                                 \o Pad(t.day, 2) \o " " \o Pad(t.hour, 2) \o ":"
                                 \o Pad(t.minute, 2) \o ":" \o Pad(t.second, 2),
             t |-> t]

Time(y, mo, d, h, mi, s) ==
    [year |-> y, month |-> mo, day |-> d, hour |-> h, minute |-> mi, second |-> s]

\* datetime.strftime
strftime_date(t) == Pad(t.year, 4) \o "-" \o Pad(t.month, 2) \o "-" \o Pad(t.day, 2)
strftime_time(t) == Pad(t.hour, 2) \o ":" \o Pad(t.minute, 2) \o ":" \o Pad(t.second, 2)

\* variant: an empty frame is not detected
df_empty_never(df) == FALSE

\* df.empty
df_empty(df) == Len(df.index) = 0 \/ Len(df.columns) = 0

\* df.reset_index(): the index becomes the first column
reset_index(df) ==
    [index_name |-> "",
     index |-> [k \in 1..Len(df.index) |-> Num(k - 1)],
     columns |-> <<df.index_name>> \o df.columns,
     data |-> [c \in DOMAIN df.data \cup {df.index_name} |->
                 IF c = df.index_name THEN df.index ELSE df.data[c]]]

InSeq(x, s) == \E k \in 1..Len(s) : s[k] = x

\* df[name] = values
set_column(df, name, values) ==
    [df EXCEPT !.columns = IF InSeq(name, df.columns) THEN df.columns
                           ELSE Append(df.columns, name),
               !.data = [c \in DOMAIN df.data \cup {name} |->
                           IF c = name THEN values ELSE df.data[c]]]

\* df[[names]]
select_columns(df, names) ==
    [df EXCEPT !.columns = names,
               !.data = [c \in {names[k] : k \in 1..Len(names)} |-> df.data[c]]]

\* variant: to_csv(path) with the index column left in
to_csv_with_index(df) ==
    <<JoinWith(<<"">> \o df.columns, ",")>>
    \o [k \in 1..Len(df.index) |->
          JoinWith(<<df.index[k].v>> \o [j \in 1..Len(df.columns) |-> df.data[df.columns[j]][k].v],
                   ",")]

\* df.to_csv(path, index=False): header line, then one line per row
to_csv(df) ==
    <<JoinWith(df.columns, ",")>>
    \o [k \in 1..Len(df.index) |->
          JoinWith([j \in 1..Len(df.columns) |-> df.data[df.columns[j]][k].v], ",")]

\* ---------------------------------------------------------------- provider
BarColumns == <<"Open", "High", "Low", "Close", "Volume", "Dividends", "Stock Splits">>

\* the price level the provider quotes for a ticker
Quote(ticker) ==
    CASE ticker = "SPY" -> 470 [] ticker = "spy" -> 47 [] ticker = "SPY_hourly" -> 7
      [] ticker = "BTC-USD" -> 9000 [] ticker = "^GSPC" -> 5000 [] OTHER -> 1

BarTime(interval, k) ==
    IF interval = "1h" THEN Time(2024, 1, 2, 9 + k, 30, 0) ELSE Time(2024, 1, 1 + k, 0, 0, 0)

\* yf.Ticker(ticker).history(period, interval) returning n bars, oldest first
history(ticker, period, interval, n) ==
    [index_name |-> IF interval = "1h" THEN "Datetime" ELSE "Date",
     index |-> [k \in 1..n |-> Stamp(BarTime(interval, k))],
     columns |-> BarColumns,
     data |-> [c \in {BarColumns[j] : j \in 1..Len(BarColumns)} |->
                 [k \in 1..n |->
                    CASE c = "Open" -> Num(Quote(ticker) + k)
                      [] c = "High" -> Num(Quote(ticker) + k + 2)
                      [] c = "Low" -> Num(Quote(ticker) + k - 1)
                      [] c = "Close" -> Num(Quote(ticker) + k + 1)
                      [] c = "Volume" -> Num(1000 * k)
                      [] OTHER -> Num(0)]]]

\* what one provider call does: raise, or return n bars (n = 0: no data);
\* the series lengths met are none, one bar, and the longest
Responses ==
    {[raises |-> TRUE, n |-> 0]} \cup {[raises |-> FALSE, n |-> k] : k \in {0, 1, MaxBars}}

\* ---------------------------------------------------------------- files
Absent == [exists |-> FALSE, lines |-> <<>>]
File(lines) == [exists |-> TRUE, lines |-> lines]

DataDir == "data"

\* data_dir / name
PathJoin(dir, name) == dir \o "/" \o name

\* variant: the hourly file named like the daily one
csv_path_hourly_plain(symbol, data_dir) == PathJoin(data_dir, Join(Lower(symbol)) \o ".csv")

\* data_dir / f'{symbol.lower()}_hourly.csv'
csv_path_hourly(symbol, data_dir) == PathJoin(data_dir, Join(Lower(symbol)) \o "_hourly.csv")

\* data_dir / f'{symbol.lower()}.csv'
csv_path_daily(symbol, data_dir) == PathJoin(data_dir, Join(Lower(symbol)) \o ".csv")

\* data_dir / 'last_updated.txt'
timestamp_file(data_dir) == PathJoin(data_dir, "last_updated.txt")

CsvPaths ==
    {csv_path_hourly(s, DataDir) : s \in SymbolUniverse}
    \cup {csv_path_daily(s, DataDir) : s \in SymbolUniverse}

AllPaths == CsvPaths \cup {timestamp_file(DataDir)}

\* variant: open(path, 'a'), new lines added after the old ones
write_file_append(d, path, lines) == [d EXCEPT ![path] = File(d[path].lines \o lines)]

\* open(path, 'w') and write: the file holds exactly the new lines
write_file(d, path, lines) == [d EXCEPT ![path] = File(lines)]

\* ---------------------------------------------------------------- resolver
\* variant: the ticker map is not consulted
ticker_symbol_identity(tmap, symbol) == symbol

\* ticker_map.get(symbol, symbol)
ticker_symbol(tmap, symbol) == IF symbol \in DOMAIN tmap THEN tmap[symbol] ELSE symbol

\* entry.get('ticker', symbol)
entry_ticker(entry) == IF entry.has_ticker THEN entry.ticker ELSE entry.symbol

\* ticker_map[symbol] = ticker
dict_set(tmap, key, value) ==
    [s \in DOMAIN tmap \cup {key} |-> IF s = key THEN value ELSE tmap[s]]

RECURSIVE resolve_loop(_, _, _)
resolve_loop(entries, syms, tmap) ==
    IF entries = <<>> THEN [symbols |-> syms, ticker_map |-> tmap]
    ELSE LET entry == Head(entries)
             symbol == entry.symbol
             ticker == entry_ticker(entry)
         IN resolve_loop(Tail(entries), Append(syms, symbol),
                         IF ticker # symbol THEN dict_set(tmap, symbol, ticker) ELSE tmap)

get_symbols_from_config(cfg) == resolve_loop(cfg.symbols, <<>>, <<>>)

\* ---------------------------------------------------------------- fetchers
\* lines 53-61: Date and Time columns from the Datetime index, fixed column set
hourly_output(df) ==
    LET d1 == reset_index(df)
        d2 == set_column(d1, "Date",
                         [k \in 1..Len(d1.index) |-> Txt(strftime_date(d1.data["Datetime"][k].t))])
        d3 == set_column(d2, "Time",
                         [k \in 1..Len(d2.index) |-> Txt(strftime_time(d2.data["Datetime"][k].t))])
    IN select_columns(d3, <<"Date", "Time", "Open", "High", "Low", "Close", "Volume">>)

\* lines 79-86: Date column reformatted, fixed column set without Time
daily_output(df) ==
    LET d1 == reset_index(df)
        d2 == set_column(d1, "Date",
                         [k \in 1..Len(d1.index) |-> Txt(strftime_date(d1.data["Date"][k].t))])
    IN select_columns(d2, <<"Date", "Open", "High", "Low", "Close", "Volume">>)

\* fetch_hourly, given that the provider call returned n bars: the disk it leaves
fetch_hourly(symbol, tmap, data_dir, d, n) ==
    LET df == history(Join(ticker_symbol(tmap, symbol)), "1mo", "1h", n)
    IN IF df_empty(df) THEN d
       ELSE write_file(d, csv_path_hourly(symbol, data_dir), to_csv(hourly_output(df)))

\* fetch_daily, given that the provider call returned n bars: the disk it leaves
fetch_daily(symbol, tmap, data_dir, d, n) ==
    LET df == history(Join(ticker_symbol(tmap, symbol)), "max", "1d", n)
    IN IF df_empty(df) THEN d
       ELSE write_file(d, csv_path_daily(symbol, data_dir), to_csv(daily_output(df)))

\* ---------------------------------------------------------------- main
NoConfig == [kind |-> "none", symbols |-> <<>>, has_pairs |-> FALSE]

Running == 0 - 1

Event(op, pos, gran, arg) == [op |-> op, pos |-> pos, gran |-> gran, arg |-> arg]

\* the provider responses a run can meet: anything on a first run, the
\* recorded responses of the first run when the run is repeated
Allowed == IF run = 1 THEN Responses
           ELSE IF Len(responses) < Len(prev) THEN {prev[Len(responses) + 1]} ELSE {}

\* variant: every exit reports success
sys_exit_zero(status) == pc' = "exit" /\ exit_status' = 0

\* sys.exit(status)
sys_exit(status) == pc' = "exit" /\ exit_status' = status

\* the for statement taking its next symbol, or falling through to line 116
loop_pc(next_idx) == IF next_idx <= Len(symbols) THEN "hourly" ELSE "marker"

\* variant: the error is printed and the loop goes on to the next symbol
except_continue(next_idx) ==
    pc' = loop_pc(next_idx) /\ idx' = next_idx /\ exit_status' = exit_status

\* variant: the error is printed and the process ends with status 0
except_exit_zero(next_idx) == pc' = "exit" /\ exit_status' = 0 /\ idx' = idx

\* variant: the failing symbol is tried again
except_retry(next_idx) == pc' = "hourly" /\ idx' = idx /\ exit_status' = exit_status

\* lines 112-114: except Exception: print the error, sys.exit(1)
except_handler(next_idx) == sys_exit(1) /\ idx' = idx

\* variant: a missing config.json falls back to an empty default configuration
MainLoadConfigFallback ==
    /\ pc = "load"
    /\ IF config_file.kind = "unparsable"
       THEN sys_exit(1) /\ config' = config
       ELSE /\ pc' = "resolve"
            /\ exit_status' = exit_status
            /\ config' = IF config_file.kind = "missing"
                         THEN [kind |-> "ok", symbols |-> <<>>, has_pairs |-> TRUE]
                         ELSE config_file
    /\ log' = Append(log, Event("load", 0, "", config_file.kind))
    /\ UNCHANGED <<config_file, symbols, ticker_map, idx, disk, responses, now, run,
                   prev, disk0, after_first>>

\* lines 18-26 and 96: load_config
MainLoadConfig ==
    /\ pc = "load"
    /\ IF config_file.kind = "missing"
       THEN sys_exit(1) /\ config' = config
       ELSE IF config_file.kind = "unparsable"
       THEN sys_exit(1) /\ config' = config
       ELSE pc' = "resolve" /\ exit_status' = exit_status /\ config' = config_file
    /\ log' = Append(log, Event("load", 0, "", config_file.kind))
    /\ UNCHANGED <<config_file, symbols, ticker_map, idx, disk, responses, now, run,
                   prev, disk0, after_first>>

\* lines 97-99: get_symbols_from_config, then the count of config['pairs']
MainResolve ==
    /\ pc = "resolve"
    /\ symbols' = get_symbols_from_config(config).symbols
    /\ ticker_map' = get_symbols_from_config(config).ticker_map
    /\ IF config.has_pairs
       THEN pc' = "mkdir" /\ exit_status' = exit_status
       ELSE sys_exit(1)
    /\ UNCHANGED <<config_file, config, idx, disk, log, responses, now, run, prev,
                   disk0, after_first>>

\* lines 101-104: data_dir.mkdir(exist_ok=True), then the loop starts
MainMkdir ==
    /\ pc = "mkdir"
    /\ log' = Append(log, Event("mkdir", 0, "", DataDir))
    /\ idx' = 1
    /\ pc' = loop_pc(1)
    /\ UNCHANGED <<config_file, config, symbols, ticker_map, disk, exit_status,
                   responses, now, run, prev, disk0, after_first>>

\* line 109: fetch_hourly(symbol, ticker_map, data_dir) inside the try
MainFetchHourly ==
    /\ pc = "hourly"
    /\ \E r \in Allowed :
         LET symbol == symbols[idx]
             call == Event("fetch", idx, "hourly", Join(ticker_symbol(ticker_map, symbol)))
             path == csv_path_hourly(symbol, DataDir)
         IN /\ responses' = Append(responses, r)
            /\ IF r.raises
               THEN /\ except_handler(idx + 1)
                    /\ disk' = disk
                    /\ log' = Append(log, call)
               ELSE /\ disk' = fetch_hourly(symbol, ticker_map, DataDir, disk, r.n)
                    /\ log' = IF r.n = 0 THEN Append(log, call)
                              ELSE log \o <<call, Event("write", idx, "hourly", path)>>
                    /\ pc' = "daily"
                    /\ UNCHANGED <<idx, exit_status>>
    /\ UNCHANGED <<config_file, config, symbols, ticker_map, now, run, prev, disk0,
                   after_first>>

\* line 110: fetch_daily(symbol, ticker_map, data_dir) inside the try
MainFetchDaily ==
    /\ pc = "daily"
    /\ \E r \in Allowed :
         LET symbol == symbols[idx]
             call == Event("fetch", idx, "daily", Join(ticker_symbol(ticker_map, symbol)))
             path == csv_path_daily(symbol, DataDir)
         IN /\ responses' = Append(responses, r)
            /\ IF r.raises
               THEN /\ except_handler(idx + 1)
                    /\ disk' = disk
                    /\ log' = Append(log, call)
               ELSE /\ disk' = fetch_daily(symbol, ticker_map, DataDir, disk, r.n)
                    /\ log' = IF r.n = 0 THEN Append(log, call)
                              ELSE log \o <<call, Event("write", idx, "daily", path)>>
                    /\ idx' = idx + 1
                    /\ pc' = loop_pc(idx + 1)
                    /\ exit_status' = exit_status
    /\ UNCHANGED <<config_file, config, symbols, ticker_map, now, run, prev, disk0,
                   after_first>>

\* datetime.utcnow().strftime('%Y-%m-%d %H:%M:%S UTC')
utc_stamp(t) == strftime_date(t) \o " " \o strftime_time(t) \o " UTC"

\* lines 116-123: the timestamp marker, then the normal end of the process
MainWriteMarker ==
    /\ pc = "marker"
    /\ disk' = write_file(disk, timestamp_file(DataDir), <<utc_stamp(now)>>)
    /\ log' = Append(log, Event("marker", 0, "", timestamp_file(DataDir)))
    /\ sys_exit(0)
    /\ UNCHANGED <<config_file, config, symbols, ticker_map, idx, responses, now, run,
                   prev, disk0, after_first>>

\* lines 125-126: the program is started once more, later, with the same
\* config.json, either on the disk the first run left or on the disk the
\* first run started from
MainAgain ==
    /\ pc = "exit"
    /\ run = 1
    /\ run' = 2
    /\ prev' = responses
    /\ after_first' = disk
    /\ \E d \in {disk, disk0} : disk' = d /\ disk0' = d
    /\ now' = [now EXCEPT !.hour = now.hour + 1]
    /\ pc' = "load"
    /\ exit_status' = Running
    /\ config' = NoConfig
    /\ symbols' = <<>>
    /\ ticker_map' = <<>>
    /\ idx' = 0
    /\ log' = <<>>
    /\ responses' = <<>>
    /\ UNCHANGED config_file

\* ---------------------------------------------------------------- specifications
ConfigFiles(entries) ==
    {[kind |-> k, symbols |-> <<>>, has_pairs |-> FALSE] : k \in {"missing", "unparsable"}}
    \cup {[kind |-> "ok", symbols |-> es, has_pairs |-> b] :
            es \in SeqsUpTo(entries, MaxSyms), b \in BOOLEAN}

FreshDisk == [p \in AllPaths |-> Absent]

\* the disk an earlier run left: every file present with older content
StaleDisk ==
    [p \in AllPaths |->
       IF p = timestamp_file(DataDir) THEN File(<<utc_stamp(Time(2024, 1, 31, 6, 0, 0))>>)
       ELSE File(<<"Date,Open,High,Low,Close,Volume", "2023-12-29,1,1,1,1,1">>)]

InitWith(entries, disks) ==
    /\ config_file \in ConfigFiles(entries)
    /\ disk \in disks
    /\ disk0 = disk
    /\ after_first = disk
    /\ config = NoConfig
    /\ symbols = <<>>
    /\ ticker_map = <<>>
    /\ pc = "load"
    /\ idx = 0
    /\ exit_status = Running
    /\ log = <<>>
    /\ responses = <<>>
    /\ prev = <<>>
    /\ run = 1
    /\ now = Time(2024, 2, 1, 12, 0, 0)

Init == InitWith(RunEntries, {FreshDisk, StaleDisk})

Next ==
    \/ MainLoadConfig
    \/ MainResolve
    \/ MainMkdir
    \/ MainFetchHourly
    \/ MainFetchDaily
    \/ MainWriteMarker

Spec == Init /\ [][Next]_vars

\* the resolver alone, on configurations of every override shape
InitResolve == InitWith(ResolveEntries, {FreshDisk})

NextResolve ==
    \/ MainLoadConfig
    \/ MainResolve

SpecResolve == InitResolve /\ [][NextResolve]_vars

\* the program run, and then run once more against the same provider responses
TwiceEntries == {Entry(SPY, FALSE, <<>>), Entry(SpyHourly, FALSE, <<>>)}

InitTwice == InitWith(TwiceEntries, {FreshDisk, StaleDisk})

NextTwice ==
    \/ MainLoadConfig
    \/ MainResolve
    \/ MainMkdir
    \/ MainFetchHourly
    \/ MainFetchDaily
    \/ MainWriteMarker
    \/ MainAgain

SpecTwice == InitTwice /\ [][NextTwice]_vars

\* ---------------------------------------------------------------- observations
MarkerPath == timestamp_file(DataDir)

Raised == \E k \in 1..Len(responses) : responses[k].raises

IsOp(op) == {k \in 1..Len(log) : log[k].op = op}

Halted == pc = "exit"

ConfigBroken == config_file.kind \in {"missing", "unparsable"}

\* the position in responses of the provider call of list position i at granularity g
CallNo(i, g) == IF g = "hourly" THEN 2 * i - 1 ELSE 2 * i

\* every fetch of the configured list was made and returned
AllReturned == ~Raised /\ Len(responses) = 2 * Len(config_file.symbols)

\* ---------------------------------------------------------------- C1
\* C1: last_updated.txt is written only in a run in which every configured
\* symbol's hourly and daily fetch returned (an empty result included); in a
\* run where a fetch raised, the marker holds what it held before the run.
C1_MarkerOnlyOnFullSuccess ==
    /\ (IsOp("marker") # {} \/ disk[MarkerPath] # disk0[MarkerPath])
         => (config_file.kind = "ok" /\ AllReturned)
    /\ Raised => (IsOp("marker") = {} /\ disk[MarkerPath] = disk0[MarkerPath])

\* a run that wrote a CSV file, then met a raising fetch, over an older marker
C1_Witness ==
    /\ Halted /\ Raised
    /\ IsOp("write") # {}
    /\ disk0[MarkerPath].exists
    /\ disk[MarkerPath] = disk0[MarkerPath]

\* ---------------------------------------------------------------- C2
\* the step that raised: the last provider call of the log
LastCall == log[Len(log)]

\* C2 as stated: when a fetch step of the k-th symbol raises, the files of
\* symbols 1..k-1 remain, no file was produced in this run for symbol k or a
\* later one, the exit status is non-zero and the marker is not updated.
C2_AsStated ==
    (Halted /\ Raised) =>
        /\ \A w \in IsOp("write") : log[w].pos < idx
        /\ \A w \in IsOp("write") : disk[log[w].arg].exists
        /\ exit_status # 0 /\ exit_status # Running
        /\ disk[MarkerPath] = disk0[MarkerPath]

\* C2 amended: when a fetch step of the k-th symbol raises, the files written
\* by the steps completed before it (those of symbols 1..k-1 and, when it is
\* the daily step that raises, the hourly file of symbol k) remain on disk,
\* the failing step and every later step write nothing, the exit status is 1
\* and the marker is not updated.
C2_FatalErrorPolicy ==
    (Halted /\ Raised) =>
        /\ LastCall.op = "fetch" /\ LastCall.pos = idx
        /\ responses[Len(responses)].raises
        /\ \A w \in IsOp("write") :
              /\ \/ log[w].pos < idx
                 \/ log[w].pos = idx /\ log[w].gran = "hourly" /\ LastCall.gran = "daily"
              /\ disk[log[w].arg].exists
              /\ disk[log[w].arg] # disk0[log[w].arg]
        /\ exit_status = 1
        /\ IsOp("marker") = {}
        /\ disk[MarkerPath] = disk0[MarkerPath]

\* the daily fetch of the second symbol raised after its hourly file was written
C2_Witness ==
    /\ Halted /\ Raised
    /\ idx = 2
    /\ LastCall.gran = "daily"
    /\ \E w \in IsOp("write") : log[w].pos = idx /\ log[w].gran = "hourly"
    /\ \E w \in IsOp("write") : log[w].pos < idx

\* ---------------------------------------------------------------- C3
EmptyStep ==
    /\ pc \in {"hourly", "daily"}
    /\ Len(responses') = Len(responses) + 1
    /\ ~responses'[Len(responses')].raises
    /\ responses'[Len(responses')].n = 0

StepPath == IF pc = "hourly" THEN csv_path_hourly(symbols[idx], DataDir)
            ELSE csv_path_daily(symbols[idx], DataDir)

C4_ExitStatus ==
    /\ Halted => exit_status \in {0, 1}
    /\ ~Halted => exit_status = Running
    /\ Halted =>
         /\ exit_status = 0 <=>
              (config_file.kind = "ok" /\ config_file.has_pairs /\ AllReturned)
         /\ config_file.kind = "missing" => exit_status = 1
         /\ Raised => exit_status = 1

\* a run of two symbols whose four fetches all came back empty
C4_Witness ==
    /\ Halted /\ exit_status = 0
    /\ Len(symbols) = 2
    /\ Len(responses) = 4
    /\ \A k \in 1..Len(responses) : responses[k].n = 0

\* ---------------------------------------------------------------- C5
Resolved == config.kind = "ok" /\ pc \notin {"load", "resolve"}

\* the ticker the claim expects for a configured entry
OverrideOrSymbol(entry) ==
    IF entry.has_ticker /\ entry.ticker # entry.symbol THEN entry.ticker ELSE entry.symbol

ResolvesEveryEntry ==
    /\ Len(symbols) = Len(config.symbols)
    /\ \A i \in 1..Len(config.symbols) :
          /\ symbols[i] = config.symbols[i].symbol
          /\ ticker_symbol(ticker_map, symbols[i]) = OverrideOrSymbol(config.symbols[i])

NoSymbolTwice ==
    \A i, j \in 1..Len(config.symbols) :
        i # j => config.symbols[i].symbol # config.symbols[j].symbol

\* C5 as stated: for every configuration, one listing a symbol twice included,
\* each entry's fetch ticker is its override when present and different from
\* the symbol, else the symbol; the symbol list is the configured order.
C5_AsStated == Resolved => ResolvesEveryEntry

\* C5 amended: the same, for every configuration that lists no symbol more
\* than once.
C5_ResolvedTicker == (Resolved /\ NoSymbolTwice) => ResolvesEveryEntry

\* two different symbols resolved, one with a real override, one whose
\* override repeats the symbol
C5_Witness ==
    /\ Resolved /\ NoSymbolTwice
    /\ Len(symbols) = 2
    /\ \E i \in 1..2 : config.symbols[i].has_ticker
                       /\ config.symbols[i].ticker # config.symbols[i].symbol
                       /\ ticker_symbol(ticker_map, symbols[i]) = config.symbols[i].ticker
    /\ \E i \in 1..2 : config.symbols[i].has_ticker
                       /\ config.symbols[i].ticker = config.symbols[i].symbol

\* ---------------------------------------------------------------- C6
\* the CSV text of the n bars the provider returned for list position i at g
OwnCsv(i, g, n) ==
    LET ticker == Join(ticker_symbol(ticker_map, symbols[i]))
    IN IF g = "hourly" THEN to_csv(hourly_output(history(ticker, "1mo", "1h", n)))
       ELSE to_csv(daily_output(history(ticker, "max", "1d", n)))

ClaimedPath(i, g) ==
    IF g = "hourly" THEN "data/" \o Join(Lower(symbols[i])) \o "_hourly.csv"
    ELSE "data/" \o Join(Lower(symbols[i])) \o ".csv"

ReturnedBars(i, g) ==
    /\ CallNo(i, g) <= Len(responses)
    /\ ~responses[CallNo(i, g)].raises
    /\ responses[CallNo(i, g)].n > 0

\* a later listing of the same symbol has fetched bars for g since
Refetched(i, g) ==
    \E j \in (i + 1)..Len(symbols) : symbols[j] = symbols[i] /\ ReturnedBars(j, g)

\* each file written in the run holds the bars last returned for its own
\* (symbol, granularity), and every write to the path of a (symbol,
\* granularity) is by a fetch of that symbol at that granularity
EveryFileHoldsOwnBars ==
    /\ \A i \in 1..Len(symbols), g \in {"hourly", "daily"} :
          (ReturnedBars(i, g) /\ ~Refetched(i, g))
          => disk[ClaimedPath(i, g)] = File(OwnCsv(i, g, responses[CallNo(i, g)].n))
    /\ \A w \in IsOp("write"), i \in 1..Len(symbols), g \in {"hourly", "daily"} :
          log[w].arg = ClaimedPath(i, g)
          => (symbols[log[w].pos] = symbols[i] /\ log[w].gran = g)

HourlySuffix == <<"_", "h", "o", "u", "r", "l", "y">>

\* no two different symbols of the list name the same file: they differ once
\* lowercased, and none is another one followed by _hourly
PathsApart ==
    \A i, j \in 1..Len(symbols) :
        symbols[i] # symbols[j]
        => /\ Lower(symbols[i]) # Lower(symbols[j])
           /\ Lower(symbols[i]) # Lower(symbols[j]) \o HourlySuffix

\* C6 as stated: for every configured symbol list, each file written in the
\* run holds the bars of its own (symbol, granularity) pair, no fetch for a
\* different symbol or granularity ever writing to that path.
C6_AsStated == EveryFileHoldsOwnBars

\* C6 amended: the same, for every configured symbol list in which no two
\* different symbols name the same file.
C6_FileOwnership == PathsApart => EveryFileHoldsOwnBars

\* two symbols with four different files, each fetch returning bars, the
\* series of different lengths
C6_Witness ==
    /\ Halted /\ exit_status = 0
    /\ Len(symbols) = 2 /\ PathsApart
    /\ symbols[1] # symbols[2]
    /\ \A k \in 1..4 : responses[k].n > 0
    /\ responses[1].n # responses[3].n
    /\ responses[1].n # responses[2].n

\* ---------------------------------------------------------------- C7
\* C7: with config.json absent or unparsable the run ends, with a non-zero
\* status, before the data directory is created, before any provider call,
\* and with every CSV file and the marker as they were.
C7_ConfigErrorBeforeOutput ==
    ConfigBroken =>
        /\ pc \in {"load", "exit"}
        /\ Halted => exit_status = 1
        /\ IsOp("mkdir") = {} /\ IsOp("fetch") = {}
        /\ IsOp("write") = {} /\ IsOp("marker") = {}
        /\ disk = disk0

\* an unparsable config.json met on a disk that holds older files
C7_Witness ==
    /\ Halted
    /\ config_file.kind = "unparsable"
    /\ disk0 = StaleDisk

\* ---------------------------------------------------------------- C8
\* C8: when the program is run twice with the same configuration and the same
\* provider responses, every CSV file is, after the second run, what it was
\* after the first.
C8_Idempotence ==
    (run = 2 /\ Halted) => \A p \in CsvPaths : disk[p] = after_first[p]

\* a repeated run that wrote a file, skipped an empty result and finished
C8_Witness ==
    /\ run = 2 /\ Halted /\ exit_status = 0
    /\ IsOp("write") # {}
    /\ \E k \in 1..Len(responses) : responses[k].n = 0
    /\ Len(symbols) = 2

\* ---------------------------------------------------------------- C9
Calls == SelectSeq(log, LAMBDA e : e.op = "fetch")

\* C9: the provider calls of a run are a prefix of (s1, hourly), (s1, daily),
\* (s2, hourly), (s2, daily), ... in configuration order, each against its
\* own symbol's ticker and none repeated; a CSV write directly follows the
\* call whose bars it stores; the marker write comes after all of them.
C9_CallOrder ==
    /\ Len(Calls) <= 2 * Len(symbols)
    /\ \A k \in 1..Len(Calls) :
          /\ Calls[k].pos = (k + 1) \div 2
          /\ Calls[k].gran = (IF k % 2 = 1 THEN "hourly" ELSE "daily")
          /\ Calls[k].arg = Join(ticker_symbol(ticker_map, symbols[(k + 1) \div 2]))
    /\ \A w \in IsOp("write") :
          /\ w > 1
          /\ log[w - 1].op = "fetch"
          /\ log[w - 1].pos = log[w].pos /\ log[w - 1].gran = log[w].gran
    /\ \A m \in IsOp("marker") :
          /\ m = Len(log)
          /\ Len(Calls) = 2 * Len(symbols)

\* a finished run over two symbols, one of them fetched under a ticker alias
C9_Witness ==
    /\ Halted /\ exit_status = 0
    /\ Len(symbols) = 2
    /\ Len(Calls) = 4
    /\ IsOp("marker") # {}
    /\ Calls[3].arg = "BTC-USD"

\* ---------------------------------------------------------------- C10
JustWrote == log # <<>> /\ log[Len(log)].op = "write"

\* the CSV line expected for bar k of a series: its date (and its time of
\* day when hourly), then open, high, low, close, volume
BarLine(g, ticker, k) ==
    LET t == BarTime(IF g = "hourly" THEN "1h" ELSE "1d", k)
        q == Quote(ticker)
    IN Pad(t.year, 4) \o "-" \o Pad(t.month, 2) \o "-" \o Pad(t.day, 2)
       \o (IF g = "hourly"
           THEN "," \o Pad(t.hour, 2) \o ":" \o Pad(t.minute, 2) \o ":" \o Pad(t.second, 2)
           ELSE "")
       \o "," \o Str(q + k) \o "," \o Str(q + k + 2) \o "," \o Str(q + k - 1)
       \o "," \o Str(q + k + 1) \o "," \o Str(1000 * k)

\* C10: the CSV written for a series of N >= 1 bars has N + 1 lines: the
\* header Date,Time,Open,High,Low,Close,Volume (hourly) or
\* Date,Open,High,Low,Close,Volume (daily), then one line per bar in the
\* order the provider returned them.
C10_CsvShape ==
    JustWrote =>
        LET w == log[Len(log)]
            n == responses[Len(responses)].n
            f == disk[w.arg]
        IN /\ n >= 1
           /\ f.exists
           /\ Len(f.lines) = n + 1
           /\ f.lines[1] = (IF w.gran = "hourly" THEN "Date,Time,Open,High,Low,Close,Volume"
                            ELSE "Date,Open,High,Low,Close,Volume")
           /\ \A k \in 1..n :
                 f.lines[k + 1] = BarLine(w.gran, log[Len(log) - 1].arg, k)

\* an hourly file of several bars has just been written
C10_Witness ==
    /\ JustWrote
    /\ log[Len(log)].gran = "hourly"
    /\ responses[Len(responses)].n > 1
    /\ Len(disk[log[Len(log)].arg].lines) = responses[Len(responses)].n + 1

====
